---- MODULE Spec2Model ----
(***************************************************************************)
(* HyperMorph Associative Set Engine: the HyperAtom collection (HACOL),    *)
(* the Associative Entity Set (ASET) and their generative pipelines        *)
(* (HACOLPipe, ASETPipe), modelled from hacol.py, hacol_pipe.py, haset.py, *)
(* haset_pipe.py and utils.py.                                             *)
(*                                                                         *)
(* Conventions                                                             *)
(*  - a PyArrow BooleanArray is a sequence over {"T", "F", "N"} (N = null) *)
(*  - a PyArrow DictionaryArray is a dictionary (sequence of values) and a *)
(*    sequence of indices, 0-based positions of the dictionary or NULL     *)
(*  - a condition string is a sequence of one-character strings            *)
(*  - a RecordBatch obtained from ASET.filtered_data is the sequence of    *)
(*    the row numbers it keeps                                             *)
(***************************************************************************)
EXTENDS Integers, Sequences, FiniteSets, TLC

\* ------------------------------------------------------------------------
\* Bounds of the model
\* ------------------------------------------------------------------------
NumRows == 3          \* rows of the materialized batch
MaxVal == 2           \* column values are 1..MaxVal or null
MaxApplied == 2       \* conditions folded into the row mask between two full resets
MaxPipes == 2         \* pipeline objects the caller keeps a reference to
MaxChain == 4         \* chained calls that one pipeline object records in _repr
MaxLimit == 3         \* largest limit passed to slice, to_numpy and to_series
MaxOffset == 2        \* largest offset passed to them

NULL == -1            \* a null slot of a PyArrow array

Rows == 1..NumRows
Vals == 1..MaxVal
Cell == Vals \cup {NULL}
Attrs == {1, 2}       \* dim2 of the attributes of the entity
Slots == 1..MaxPipes

CName(d) == IF d = 1 THEN "a" ELSE "b"

VARIABLES
    aset,      \* ASET: num_rows, hbonds, filtered, mask
    hacols,    \* ASET._hacols: dim2 -> HAtomCollection
    pipes,     \* the pipeline objects referenced by the caller
    last,      \* the last call made and the exception it raised, if any
    applied,   \* history: conditions folded into the mask since the last full reset
    clean      \* history: every such condition was evaluated on an unfiltered column

vars == <<aset, hacols, pipes, last, applied, clean>>

\* ------------------------------------------------------------------------
\* Sequences, strings
\* ------------------------------------------------------------------------
Range(s) == {s[i] : i \in 1..Len(s)}

RECURSIVE Unique(_)
\* pyarrow Array.unique(): distinct elements (null included) by first appearance
Unique(s) ==
    IF s = <<>> THEN <<>>
    ELSE LET front == Unique(SubSeq(s, 1, Len(s) - 1))
             e == s[Len(s)]
         IN IF e \in Range(front) THEN front ELSE Append(front, e)

CountOf(s, e) == Cardinality({i \in 1..Len(s) : s[i] = e})

\* pyarrow Array.value_counts(): <<value, count>> by first appearance
ValueCounts(s) == LET u == Unique(s) IN [i \in 1..Len(u) |-> <<u[i], CountOf(s, u[i])>>]

NonNull(e) == e # NULL

\* Python: sub in s
Contains(s, sub) ==
    \E i \in 1..(Len(s) - Len(sub) + 1) : SubSeq(s, i, i + Len(sub) - 1) = sub

\* Python: s.find(sub), 0-based, for a sub that occurs in s
Find(s, sub) ==
    (CHOOSE i \in 1..(Len(s) - Len(sub) + 1) :
        /\ SubSeq(s, i, i + Len(sub) - 1) = sub
        /\ \A j \in 1..(i - 1) : SubSeq(s, j, j + Len(sub) - 1) # sub) - 1

\* Python: s[from:] and s[from:to] with 0-based bounds
Slice(s, from, to) == SubSeq(s, from + 1, to)
SliceFrom(s, from) == SubSeq(s, from + 1, Len(s))

RECURSIVE Strip(_)
\* Python: s.strip()
Strip(s) ==
    IF s = <<>> THEN s
    ELSE IF s[1] = " " THEN Strip(Tail(s))
    ELSE IF s[Len(s)] = " " THEN Strip(SubSeq(s, 1, Len(s) - 1))
    ELSE s

Digits == <<"0", "1", "2", "3", "4", "5", "6", "7", "8", "9">>
DigitVal(c) == (CHOOSE i \in 1..10 : Digits[i] = c) - 1
IsDigit(c) == c \in Range(Digits)

RECURSIVE NumVal(_)
NumVal(s) == IF s = <<>> THEN 0 ELSE 10 * NumVal(SubSeq(s, 1, Len(s) - 1)) + DigitVal(s[Len(s)])

\* Python: float(s) and int(s) on the digit strings the model draws;
\* NULL stands for the ValueError both raise on anything else
ParseNumber(s) ==
    LET t == Strip(s)
    IN IF t # <<>> /\ \A i \in 1..Len(t) : IsDigit(t[i]) THEN NumVal(t) ELSE NULL

\* ------------------------------------------------------------------------
\* PyArrow / NumPy kernels
\* ------------------------------------------------------------------------
\* a filter that also keeps the slots whose mask entry is null
FilterEmitNull(s, m) ==
    LET F[i \in 0..Len(s)] ==
            IF i = 0 THEN <<>>
            ELSE IF m[i] # "F" THEN Append(F[i - 1], s[i]) ELSE F[i - 1]
    IN F[Len(s)]

\* Array.filter(mask), RecordBatch.filter(mask): null_selection_behavior is
\* 'drop', only the slots whose mask entry is true are kept
Filter(s, m) ==
    LET F[i \in 0..Len(s)] ==
            IF i = 0 THEN <<>>
            ELSE IF m[i] = "T" THEN Append(F[i - 1], s[i]) ELSE F[i - 1]
    IN F[Len(s)]

Popcount(m) == Cardinality({i \in 1..Len(m) : m[i] = "T"})

AllTrue(n) == [i \in 1..n |-> "T"]

\* element-wise Python 'x or y'
NpLogicalOr(x, y) ==
    LET n == IF Len(x) >= Len(y) THEN Len(x) ELSE Len(y)
        xe(i) == IF Len(x) = 1 THEN x[1] ELSE x[i]
        ye(i) == IF Len(y) = 1 THEN y[1] ELSE y[i]
    IN [i \in 1..n |-> IF xe(i) = "T" THEN xe(i) ELSE ye(i)]

\* np.logical_and(x, y) on boolean arrays that may hold None: element-wise
\* Python 'x and y' (x when x is not true, else y); shapes (n,) and (1,) broadcast.
\* Defined when Len(x) = Len(y) or one of them has length 1.
NpLogicalAnd(x, y) ==
    LET n == IF Len(x) >= Len(y) THEN Len(x) ELSE Len(y)
        xe(i) == IF Len(x) = 1 THEN x[1] ELSE x[i]
        ye(i) == IF Len(y) = 1 THEN y[1] ELSE y[i]
    IN [i \in 1..n |-> IF xe(i) # "T" THEN xe(i) ELSE ye(i)]

Broadcastable(x, y) == Len(x) = Len(y) \/ Len(x) = 1 \/ Len(y) = 1

\* a decoding in the manner of np.take: a null index takes the last value
DecodeTake(dictionary, indices) ==
    [i \in 1..Len(indices) |->
        IF indices[i] # NULL THEN dictionary[indices[i] + 1]
        ELSE IF dictionary = <<>> THEN NULL ELSE dictionary[Len(dictionary)]]

\* DictionaryArray.cast(vtype): decode the indices through the dictionary
Decode(dictionary, indices) ==
    [i \in 1..Len(indices) |-> IF indices[i] = NULL THEN NULL ELSE dictionary[indices[i] + 1]]

\* pa.array(values).dictionary_encode(): dictionary by first appearance
DictionaryOf(col) == Unique(SelectSeq(col, NonNull))
PositionOf(dictionary, v) == (CHOOSE i \in 1..Len(dictionary) : dictionary[i] = v) - 1
IndicesOf(col) ==
    LET d == DictionaryOf(col)
    IN [i \in 1..Len(col) |-> IF col[i] = NULL THEN NULL ELSE PositionOf(d, col[i])]

\* DSUtils.pyarrow_dict_to_arr: the DictionaryArray cast to its value type
pyarrow_dict_to_arr(dict_array) == Decode(dict_array.dictionary, dict_array.indices)

\* DSUtils.numpy_to_pyarrow(np_arr, dictionary=True): pa.array(np_arr), a
\* missing value (None) becoming a null, then dictionary_encode()
numpy_to_pyarrow(np_arr) ==
    [dictionary |-> DictionaryOf(np_arr), indices |-> IndicesOf(np_arr)]

\* pyarrow.compute scalar comparison: null in, null out
Compare(op, v, number) ==
    IF v = NULL THEN "N"
    ELSE IF CASE op = "greater_equal" -> v >= number
              [] op = "less_equal" -> v <= number
              [] op = "less" -> v < number
              [] op = "greater" -> v > number
              [] op = "equal" -> v = number
              [] op = "not_equal" -> v # number
         THEN "T" ELSE "F"

scalar_oplist == {"equal", "not_equal", "less", "less_equal", "greater", "greater_equal"}

\* ------------------------------------------------------------------------
\* HAtomCollection (hacol.py)
\* ------------------------------------------------------------------------
Positions(h) == 0..(h.unique - 1)

ValidEntry(e) == e[1] # NULL

\* HAtomCollection._construct_states_dictionary: a record array built by
\* position from the valid entries of value_counts(); sel all false, inc all true
ConstructStatesDictionary(dictionary, indices) ==
    LET vc == SelectSeq(ValueCounts(indices), ValidEntry)
        P == 0..(Len(dictionary) - 1)
    IN [ha1 |-> [p \in P |-> vc[p + 1][1]],
        freq |-> [p \in P |-> vc[p + 1][2]],
        val |-> [p \in P |-> dictionary[p + 1]],
        cnt |-> [p \in P |-> vc[p + 1][2]],
        sel |-> [p \in P |-> FALSE],
        inc |-> [p \in P |-> TRUE]]

\* HAtomCollection.is_filtered
HacolIsFiltered(h) == h.values < h.length

\* HAtomCollection.__init__ on the dictionary-encoded column
HAtomCollection(d, col) ==
    LET dictionary == DictionaryOf(col)
        indices == IndicesOf(col)
    IN [dim2 |-> d,
        dictionary |-> dictionary,
        indices |-> indices,
        filtered_data |-> indices,
        unique |-> Len(dictionary),
        missing |-> CountOf(indices, NULL),
        length |-> Len(indices),
        valid |-> Len(indices) - CountOf(indices, NULL),
        sdict |-> ConstructStatesDictionary(dictionary, indices),
        hatoms |-> Len(dictionary),
        values |-> Len(indices),
        filtered |-> FALSE]

\* a reset that leaves the selection state
HacolResetKeepSelection(h) ==
    [h EXCEPT !.hatoms = h.unique,
              !.values = h.length,
              !.filtered = FALSE,
              !.filtered_data = h.indices,
              !.sdict = [h.sdict EXCEPT !.cnt = h.sdict.freq,
                                        !.inc = [p \in Positions(h) |-> FALSE]]]

\* a reset that leaves the filtered view and the included counters
HacolResetKeepView(h) ==
    [h EXCEPT !.sdict = [h.sdict EXCEPT !.cnt = h.sdict.freq,
                                        !.inc = [p \in Positions(h) |-> FALSE],
                                        !.sel = [p \in Positions(h) |-> FALSE]]]

\* a reset that takes the frequencies of the filtered state as the frequencies
HacolResetFrequency(h) ==
    [h EXCEPT !.hatoms = h.unique,
              !.values = h.length,
              !.filtered = FALSE,
              !.filtered_data = h.indices,
              !.sdict = [h.sdict EXCEPT !.freq = h.sdict.cnt,
                                        !.inc = [p \in Positions(h) |-> FALSE],
                                        !.sel = [p \in Positions(h) |-> FALSE]]]

\* HAtomCollection.reset
HacolReset(h) ==
    [h EXCEPT !.hatoms = h.unique,
              !.values = h.length,
              !.filtered = FALSE,
              !.filtered_data = h.indices,
              !.sdict = [h.sdict EXCEPT !.cnt = h.sdict.freq,
                                        !.inc = [p \in Positions(h) |-> FALSE],
                                        !.sel = [p \in Positions(h) |-> FALSE]]]

\* HAtomCollection.update_select_state: sel[indices] = True.
\* Indexing with an index array that holds a null raises IndexError.
UpdateSelectStateRaises(indices) == NULL \in Range(indices)

\* an update that clears the selection of the positions it is not given
UpdateSelectStateOnly(h, indices) ==
    [h EXCEPT !.sdict.sel = [p \in Positions(h) |-> p \in Range(indices)]]

UpdateSelectState(h, indices) ==
    [h EXCEPT !.sdict.sel = [p \in Positions(h) |->
                                 IF p \in Range(indices) THEN TRUE ELSE h.sdict.sel[p]]]

\* an update that does not zero cnt first
UpdateFrequencyKeepCount(h, indices) ==
    LET valid == SelectSeq(ValueCounts(indices), ValidEntry)
        valid_indices == {valid[i][1] : i \in 1..Len(valid)}
        freqAt(p) == valid[CHOOSE i \in 1..Len(valid) : valid[i][1] = p][2]
    IN [h EXCEPT !.sdict.cnt = [p \in Positions(h) |->
                                    IF p \in valid_indices THEN freqAt(p) ELSE h.sdict.cnt[p]],
                 !.sdict.inc = [p \in Positions(h) |-> p \in valid_indices]]

\* an update that does not zero inc first
UpdateFrequencyKeepInclude(h, indices) ==
    LET valid == SelectSeq(ValueCounts(indices), ValidEntry)
        valid_indices == {valid[i][1] : i \in 1..Len(valid)}
        freqAt(p) == valid[CHOOSE i \in 1..Len(valid) : valid[i][1] = p][2]
    IN [h EXCEPT !.sdict.cnt = [p \in Positions(h) |->
                                    IF p \in valid_indices THEN freqAt(p) ELSE 0],
                 !.sdict.inc = [p \in Positions(h) |-> h.sdict.inc[p] \/ p \in valid_indices]]

\* an update that also takes the column of the filtered rows as the
\* column's filtered view
UpdateFrequencyAndView(h, indices) ==
    LET valid == SelectSeq(ValueCounts(indices), ValidEntry)
        valid_indices == {valid[i][1] : i \in 1..Len(valid)}
        freqAt(p) == valid[CHOOSE i \in 1..Len(valid) : valid[i][1] = p][2]
    IN [h EXCEPT !.sdict.cnt = [p \in Positions(h) |->
                                    IF p \in valid_indices THEN freqAt(p) ELSE 0],
                 !.sdict.inc = [p \in Positions(h) |-> p \in valid_indices],
                 !.filtered_data = indices,
                 !.values = Len(indices),
                 !.filtered = TRUE]

\* HAtomCollection.update_frequency_include_color_state
UpdateFrequencyIncludeColorState(h, indices) ==
    LET val_counts == ValueCounts(indices)
        valid == SelectSeq(val_counts, ValidEntry)
        valid_indices == {valid[i][1] : i \in 1..Len(valid)}
        freqAt(p) == valid[CHOOSE i \in 1..Len(valid) : valid[i][1] = p][2]
    IN [h EXCEPT !.sdict.cnt = [p \in Positions(h) |->
                                    IF p \in valid_indices THEN freqAt(p) ELSE 0],
                 !.sdict.inc = [p \in Positions(h) |-> p \in valid_indices]]

\* a start that always takes the full column
HacolStartData(h) == h.indices

\* HACOLPipe(hacol).start(): the payload a column pipeline starts with
HacolStartFetch(h) == IF HacolIsFiltered(h) THEN h.filtered_data ELSE h.indices

\* HACOLPipe._parse_condition: <<operation, number>>; the operators are
\* looked up in this order and the first one contained in the string wins
ParseCondition(cond) ==
    LET after(sym) == SliceFrom(cond, Find(cond, sym) + Len(sym))
    IN IF Contains(cond, <<">", "=">>) THEN <<"greater_equal", ParseNumber(after(<<">", "=">>))>>
       ELSE IF Contains(cond, <<"<", "=">>) THEN <<"less_equal", ParseNumber(after(<<"<", "=">>))>>
       ELSE IF Contains(cond, <<"<">>) THEN <<"less", ParseNumber(after(<<"<">>))>>
       ELSE IF Contains(cond, <<">">>) THEN <<"greater", ParseNumber(after(<<">">>))>>
       ELSE IF Contains(cond, <<"=">>) THEN <<"equal", ParseNumber(after(<<"=">>))>>
       ELSE IF Contains(cond, <<"!", "=">>) THEN <<"not_equal", ParseNumber(after(<<"!", "=">>))>>
       ELSE <<"none", NULL>>

\* HACOLPipe._execute_scalar_operation on a DictionaryArray payload
ExecuteScalarOperation(h, fetch, op, number) ==
    LET array == Decode(h.dictionary, fetch)
    IN [i \in 1..Len(array) |-> Compare(op, array[i], number)]

\* a filter that leaves the included counters as they are
HacolFilterKeepCounters(h, m) ==
    [h EXCEPT !.filtered_data = Filter(h.indices, m), !.filtered = TRUE]

\* HACOLPipe.filter(mask) started from hacol.q, as ASET.update_hacols_filtered_state
\* calls it: the column is filtered with the mask, the included counters are
\* taken from the filtered indices (a null index counts as one distinct value)
HacolFilterWithMask(h, m) ==
    LET fd == Filter(h.indices, m)
    IN [h EXCEPT !.filtered_data = fd,
                 !.hatoms = Len(Unique(fd)),
                 !.values = Len(fd),
                 !.filtered = TRUE]

\* ------------------------------------------------------------------------
\* Pipeline objects (GenerativeBase, ASETPipe)
\* ------------------------------------------------------------------------
NoPipe == [kind |-> "none"]

\* A chained expression is evaluated as a whole: when it raises, or when the
\* caller turns to a method of the ASET itself, the pipeline objects it
\* produced are gone
NoPipes == [s \in Slots |-> NoPipe]

FetchNone == [t |-> "none"]
FetchBatch(rows) == [t |-> "batch", rows |-> rows]
FetchMask(m) == [t |-> "mask", m |-> m]
FetchInt(n) == [t |-> "int", n |-> n]
FetchArray(ix) == [t |-> "array", ix |-> ix]
FetchTable(cols) == [t |-> "table", cols |-> cols]

\* one chained call as _repr records it
Call(method, arg) == [m |-> method, arg |-> arg]

\* ASETPipe.__init__
ASETPipe(result) ==
    [kind |-> "aset", fetch |-> result, repr |-> <<>>, operation |-> "None",
     filtering_mode |-> "Normal", hacol |-> 0, projection |-> "None"]

\* GenerativeBase._generate: a shallow copy of the pipeline object
Generate(p) == p

\* a method that runs on the object it was called on
GenerativeInPlace(ps, src, tgt, new) == [ps EXCEPT ![tgt] = new, ![src] = new]

\* _generative: the method runs on the copy and the copy is returned; the
\* object the method was called on keeps its fields
Generative(ps, src, tgt, new) == [ps EXCEPT ![tgt] = new]

\* a method can be chained on the object in slot src
Chainable(src) == pipes[src] # NoPipe /\ Len(pipes[src].repr) < MaxChain

\* a view that keeps every row of the batch
FilteredDataUnmasked(a) == [r \in 1..a.num_rows |-> r]

\* ASET.filtered_data: the rows of the batch the mask keeps
FilteredData(a) == Filter([r \in 1..a.num_rows |-> r], a.mask)

\* a setter that replaces the mask
MaskSetterAssign(a, new_mask) == [a EXCEPT !.mask = new_mask]

\* ASET.mask setter
MaskSetter(a, new_mask) == [a EXCEPT !.mask = NpLogicalAnd(a.mask, new_mask)]

rel_operators ==
    << <<">", "=">>, <<"<", "=">>, <<"<">>, <<">">>, <<"=">>, <<"!", "=">>,
       <<"l", "i", "k", "e">> >>

\* a lookup that takes the first column for an attribute the row set lacks
GetHacolOrFirst(cond) ==
    LET found == {i \in 1..Len(rel_operators) : Contains(cond, rel_operators[i])}
        first == CHOOSE i \in found : \A j \in found : i <= j
        pos == IF found = {} THEN 0 ELSE Find(cond, rel_operators[first])
        ref == IF pos # 0 THEN Slice(cond, 0, pos) ELSE cond
        dollar == Contains(cond, <<"$">>)
        number == ParseNumber(Tail(ref))
        name == Strip(ref)
    IN IF dollar
       THEN IF number = NULL THEN [exc |-> "ValueError", dim2 |-> 0]
            ELSE IF number \in Attrs THEN [exc |-> "none", dim2 |-> number]
            ELSE [exc |-> "none", dim2 |-> 1]
       ELSE IF \E d \in Attrs : name = <<CName(d)>>
            THEN [exc |-> "none", dim2 |-> CHOOSE d \in Attrs : name = <<CName(d)>>]
            ELSE [exc |-> "none", dim2 |-> 1]

\* ASETPipe._get_hacol_from_condition: [exc, dim2]
GetHacolFromCondition(cond) ==
    LET found == {i \in 1..Len(rel_operators) : Contains(cond, rel_operators[i])}
        first == CHOOSE i \in found : \A j \in found : i <= j
        pos == IF found = {} THEN 0 ELSE Find(cond, rel_operators[first])
        ref == IF pos # 0 THEN Slice(cond, 0, pos) ELSE cond
        dollar == Contains(cond, <<"$">>)
        number == ParseNumber(Tail(ref))
        name == Strip(ref)
    IN IF dollar
       THEN IF number = NULL THEN [exc |-> "ValueError", dim2 |-> 0]
            ELSE IF number \in Attrs THEN [exc |-> "none", dim2 |-> number]
            ELSE [exc |-> "KeyError", dim2 |-> 0]
       ELSE IF \E d \in Attrs : name = <<CName(d)>>
            THEN [exc |-> "none", dim2 |-> CHOOSE d \in Attrs : name = <<CName(d)>>]
            ELSE [exc |-> "AttributeError", dim2 |-> 0]

\* a column where() that rejects a condition without operator
HacolWhereOutStrict(h, cond) ==
    LET parsed == ParseCondition(cond)
        fetch == HacolStartFetch(h)
    IN IF parsed[1] # "none" /\ parsed[2] # NULL
       THEN [exc |-> "none",
             fetch |-> FetchMask(ExecuteScalarOperation(h, fetch, parsed[1], parsed[2]))]
       ELSE [exc |-> "ValueError", fetch |-> FetchNone]

\* hacol.q.where(condition).out() as ASETPipe.where and ASETPipe.And call it:
\* [exc, fetch]; the columns hold numbers, on which match_substring is not defined
HacolWhereOut(h, cond) ==
    LET parsed == ParseCondition(cond)
        fetch == HacolStartFetch(h)
    IN IF parsed[1] # "none"
       THEN IF parsed[2] = NULL THEN [exc |-> "ValueError", fetch |-> FetchNone]
            ELSE [exc |-> "none",
                  fetch |-> FetchMask(ExecuteScalarOperation(h, fetch, parsed[1], parsed[2]))]
       ELSE IF Contains(cond, <<"l", "i", "k", "e">>)
            THEN [exc |-> "ArrowNotImplementedError", fetch |-> FetchNone]
            ELSE [exc |-> "none", fetch |-> FetchArray(fetch)]

\* np.logical_and(mask, payload) for the payload of a condition without operator:
\* the decoded values of the column (a null index decodes to the last dictionary
\* value, which an empty dictionary does not have: IndexError) taken as truth
\* values; the values of the model are not zero
ArrayAsMask(ix) == [i \in 1..Len(ix) |-> "T"]

FetchLen(f) == IF f.t = "mask" THEN Len(f.m) ELSE Len(f.ix)
FetchAsMask(f) == IF f.t = "mask" THEN f.m ELSE ArrayAsMask(f.ix)

\* the mask setter raises: shapes do not broadcast, or the element-wise 'and'
\* of a mask holding None with numbers leaves a number, which is no boolean
MaskSetterRaises(a, f) ==
    \/ ~Broadcastable(a.mask, FetchAsMask(f))
    \/ f.t = "array" /\ "N" \in Range(a.mask) /\ "T" \in Range(a.mask)

\* a filter that updates the HACOL states in every mode
IsAssociativeAlways(self) == TRUE

\* ASETPipe.filter: the filtering mode decides on the update of the HACOL states
IsAssociative(self) == self.filtering_mode = "Associative"

\* a count that ignores the filtered state
CountValueRows(a) == a.num_rows

\* ASETPipe.count: the payload
CountValue(a) == IF a.filtered THEN a.hbonds ELSE a.num_rows

\* ------------------------------------------------------------------------
\* Inputs
\* ------------------------------------------------------------------------
\* the condition strings the caller passes to where() and And()
Conds ==
    { <<"a", "<", "2">>,
      <<"b", "=", "1">>,
      <<"$", "2", ">", "1">>,
      <<"c", "<", "=", "1">> }

\* Rows can be listed in any order, so the first column is taken in one order:
\* the values 1..MaxVal in turn, the last row null.  The second column is free.
FirstColumn == [r \in Rows |-> IF r = NumRows THEN NULL ELSE ((r - 1) % MaxVal) + 1]
Batches == {b \in [Attrs -> [Rows -> Cell]] : b[1] = FirstColumn}

\* ------------------------------------------------------------------------
\* ASET (haset.py)
\* ------------------------------------------------------------------------
\* ASET.reset(hacols_only=False) on the row-set fields
AsetResetFields(a) ==
    [a EXCEPT !.mask = AllTrue(a.num_rows), !.filtered = FALSE, !.hbonds = a.num_rows]

\* what the last call of the caller did: the method, the exception it
\* raised, for the methods of the ASET the state they were called on, and
\* the data that went in or out: the record batch the ASET was loaded from,
\* the payload a terminal out() returned, the arrays an encoding returned
NotObserved == [hbonds |-> NULL, inc |-> FALSE]

\* ASET._load_data: the HACOLs are constructed, then the ASET is reset
Load(batch) ==
    /\ hacols = [d \in Attrs |-> HacolReset(HAtomCollection(d, batch[d]))]
    /\ aset = AsetResetFields([num_rows |-> Len(batch[1]), hbonds |-> Len(batch[1]),
                               filtered |-> FALSE, mask |-> <<>>])
    /\ pipes = NoPipes
    /\ last = [op |-> "load", exc |-> "none", before |-> NotObserved, src |-> 0, tgt |-> 0,
               out |-> FetchTable(batch)]
    /\ applied = <<>>
    /\ clean = TRUE

Init == \E batch \in Batches : Load(batch)

Raise(op, exc) ==
    /\ last' = [op |-> op, exc |-> exc, before |-> NotObserved, src |-> 0, tgt |-> 0,
                out |-> FetchNone]
    /\ pipes' = NoPipes
    /\ UNCHANGED <<aset, hacols, applied, clean>>

\* a chained call returns: the object it was called on (0 for a pipeline the
\* ASET or the HACOL starts) and the variable the caller binds the result to
Return(op, src, tgt) ==
    last' = [op |-> op, exc |-> "none", before |-> NotObserved, src |-> src, tgt |-> tgt,
             out |-> FetchNone]

\* a method of the ASET returns: the included rows before the call, and
\* whether a column had included positions
ReturnAfter(op) ==
    last' = [op |-> op, exc |-> "none",
             before |-> [hbonds |-> aset.hbonds,
                         inc |-> \E d \in Attrs : \E p \in Positions(hacols[d]) :
                                    hacols[d].sdict.inc[p]],
             src |-> 0, tgt |-> 0, out |-> FetchNone]

\* ASET.reset()
Reset ==
    /\ aset' = AsetResetFields(aset)
    /\ hacols' = [d \in Attrs |-> HacolReset(hacols[d])]
    /\ applied' = <<>>
    /\ clean' = TRUE
    /\ pipes' = NoPipes
    /\ ReturnAfter("reset")

\* a partial reset that ignores the flag and resets the row set as well
ResetHacolsAndMask ==
    /\ aset' = AsetResetFields(aset)
    /\ hacols' = [d \in Attrs |-> HacolReset(hacols[d])]
    /\ pipes' = NoPipes
    /\ ReturnAfter("reset_hacols")
    /\ UNCHANGED <<applied, clean>>

\* ASET.reset(hacols_only=True)
ResetHacolsOnly ==
    /\ hacols' = [d \in Attrs |-> HacolReset(hacols[d])]
    /\ pipes' = NoPipes
    /\ ReturnAfter("reset_hacols")
    /\ UNCHANGED <<aset, applied, clean>>

\* ASET.update_hacols_filtered_state
UpdateHacolsFilteredState ==
    /\ hacols' = [d \in Attrs |-> HacolFilterWithMask(hacols[d], aset.mask)]
    /\ pipes' = NoPipes
    /\ ReturnAfter("update_hacols")
    /\ UNCHANGED <<aset, applied, clean>>

\* ASET.q: ASETPipe(aset).start()
Q(tgt) ==
    /\ pipes' = [pipes EXCEPT ![tgt] = ASETPipe(FetchBatch(FilteredData(aset)))]
    /\ Return("q", 0, tgt)
    /\ UNCHANGED <<aset, hacols, applied, clean>>

\* ASET.select: ASETPipe(aset).select()
Select(tgt) ==
    /\ pipes' = [pipes EXCEPT ![tgt] = [ASETPipe(FetchNone) EXCEPT
                                            !.repr = <<Call("select", <<>>)>>,
                                            !.operation = "Selection",
                                            !.filtering_mode = "Associative"]]
    /\ Return("select", 0, tgt)
    /\ UNCHANGED <<aset, hacols, applied, clean>>

\* ASETPipe.count
Count(src, tgt) ==
    /\ Chainable(src)
    /\ pipes[src].kind = "aset"
    /\ LET self == Generate(pipes[src])
       IN pipes' = Generative(pipes, src, tgt,
                       [self EXCEPT !.fetch = FetchInt(CountValue(aset)),
                                    !.operation = "Counting",
                                    !.repr = Append(@, Call("count", <<>>))])
    /\ Return("count", src, tgt)
    /\ UNCHANGED <<aset, hacols, applied, clean>>

\* The body shared by ASETPipe.where and ASETPipe.And: the condition is
\* evaluated by the column pipeline and a non-empty result is folded into
\* the ASET mask.  where() also records the column and, on an empty result,
\* takes the ASET mask as payload.  Both record the call as '.where(...)'.
Restrict(name, src, tgt, cond, cap) ==
    /\ Chainable(src)
    /\ pipes[src].kind = "aset"
    /\ Len(applied) < cap
    /\ LET self == Generate(pipes[src])
           got == GetHacolFromCondition(cond)
           h == hacols[got.dim2]
           res == HacolWhereOut(h, cond)
       IN IF got.exc # "none" THEN Raise(name, got.exc)
          ELSE IF res.exc # "none" THEN Raise(name, res.exc)
          ELSE IF FetchLen(res.fetch) > 0 /\ res.fetch.t = "array" /\ h.unique = 0
          THEN Raise(name, "IndexError")
          ELSE IF FetchLen(res.fetch) > 0 /\ MaskSetterRaises(aset, res.fetch)
          THEN Raise(name, "ValueError")
          ELSE /\ aset' = IF FetchLen(res.fetch) > 0
                          THEN MaskSetter(aset, FetchAsMask(res.fetch))
                          ELSE aset
               /\ pipes' = Generative(pipes, src, tgt,
                      [self EXCEPT
                          !.hacol = IF name = "where" THEN got.dim2 ELSE @,
                          !.fetch = IF name = "where" /\ FetchLen(res.fetch) = 0
                                    THEN FetchMask(aset.mask) ELSE res.fetch,
                          !.operation = "Restriction",
                          !.repr = Append(@, Call("where", cond))])
               /\ applied' = IF FetchLen(res.fetch) > 0 THEN Append(applied, cond)
                             ELSE applied
               /\ clean' = (clean /\ ~HacolIsFiltered(h))
               /\ Return(name, src, tgt)
               /\ UNCHANGED hacols

\* ASETPipe.where
Where(src, tgt, cond, cap) == Restrict("where", src, tgt, cond, cap)

\* ASETPipe.And
And(src, tgt, cond, cap) == Restrict("And", src, tgt, cond, cap)

\* the column of the filtered batch that belongs to a HACOL: its indices at
\* the rows the batch keeps
BatchColumn(h, rows) == [i \in 1..Len(rows) |-> h.indices[rows[i]]]

\* the column of the last condition the chain records
IsCondition(call) == call.m = "where"

LastPredicateHacol(self) ==
    LET conds == SelectSeq(self.repr, IsCondition)
    IN IF conds = <<>> THEN self.hacol
       ELSE GetHacolFromCondition(conds[Len(conds)].arg).dim2

\* the column whose selection filter() updates: self._hacol, which where()
\* assigns and And() does not
SelectedHacol(self) == self.hacol

\* ASETPipe.filter
AsetFilter(src, tgt) ==
    /\ Chainable(src)
    /\ pipes[src].kind = "aset"
    /\ LET self == Generate(pipes[src])
           fetch == FilteredData(aset)
           assoc == IsAssociative(self)
           selected == Unique(BatchColumn(hacols[SelectedHacol(self)], fetch))
       IN IF assoc /\ self.hacol = 0 THEN Raise("filter", "AttributeError")
          ELSE IF assoc /\ UpdateSelectStateRaises(selected) THEN Raise("filter", "IndexError")
          ELSE /\ hacols' =
                     IF assoc
                     THEN [d \in Attrs |->
                              UpdateFrequencyIncludeColorState(
                                  IF d = SelectedHacol(self)
                                  THEN UpdateSelectState(hacols[d], selected)
                                  ELSE hacols[d],
                                  BatchColumn(hacols[d], fetch))]
                     ELSE hacols
               /\ aset' = [aset EXCEPT !.hbonds = Len(fetch), !.filtered = TRUE]
               /\ pipes' = Generative(pipes, src, tgt,
                      [self EXCEPT !.fetch = FetchBatch(fetch),
                                   !.operation = "Filtering",
                                   !.repr = Append(@, Call("filter", <<>>))])
               /\ Return("filter", src, tgt)
               /\ UNCHANGED <<applied, clean>>

\* ASETPipe.to_record_batch: the columns of the payload, a RecordBatch of
\* DictionaryArrays, are decoded
ToRecordBatch(src, tgt) ==
    /\ Chainable(src)
    /\ pipes[src].kind = "aset"
    /\ pipes[src].fetch.t = "batch"
    /\ LET self == Generate(pipes[src])
           col(d) == [dictionary |-> hacols[d].dictionary,
                      indices |-> BatchColumn(hacols[d], self.fetch.rows)]
       IN pipes' = Generative(pipes, src, tgt,
              [self EXCEPT !.fetch = FetchTable([d \in Attrs |-> pyarrow_dict_to_arr(col(d))]),
                           !.operation = "Transformation",
                           !.repr = Append(@, Call("to_record_batch", <<>>))])
    /\ Return("to_record_batch", src, tgt)
    /\ UNCHANGED <<aset, hacols, applied, clean>>

\* DSUtils.numpy_to_pyarrow on each column of a decoded record batch
NumpyToPyarrow(src) ==
    /\ pipes[src] # NoPipe
    /\ pipes[src].kind = "aset"
    /\ pipes[src].fetch.t = "table"
    /\ last' = [op |-> "numpy_to_pyarrow", exc |-> "none", before |-> NotObserved,
                src |-> src, tgt |-> 0,
                out |-> FetchTable([d \in Attrs |-> numpy_to_pyarrow(pipes[src].fetch.cols[d])])]
    /\ UNCHANGED <<aset, hacols, pipes, applied, clean>>

\* ------------------------------------------------------------------------
\* HACOLPipe (hacol_pipe.py): the pipelines of one column
\* ------------------------------------------------------------------------
FetchCount(atoms, values, dataframe) ==
    [t |-> "count", atoms |-> atoms, values |-> values, dataframe |-> dataframe]
FetchValues(container, values) == [t |-> container, v |-> values]

\* HACOLPipe.__init__
HACOLPipe(h, result) ==
    [kind |-> "hacol", fetch |-> result, repr |-> <<>>, operation |-> "None",
     hacol |-> h.dim2, filtered |-> h.filtered]

\* sort_indices and np.sort: ascending, nulls (NaN) last
Before(x, y) == y = NULL \/ (x # NULL /\ x <= y)

RECURSIVE SortAscending(_)
SortAscending(array) ==
    IF array = <<>> THEN <<>>
    ELSE LET i == CHOOSE i \in 1..Len(array) : \A j \in 1..Len(array) : Before(array[i], array[j])
         IN <<array[i]>> \o SortAscending(SubSeq(array, 1, i - 1) \o SubSeq(array, i + 1, Len(array)))

Reverse(array) == [i \in 1..Len(array) |-> array[Len(array) + 1 - i]]

\* DSUtils.pyarrow_sort; np.sort(...) and np.sort(...)[::-1] order alike
pyarrow_sort(array, ascending) ==
    IF ascending THEN SortAscending(array) ELSE Reverse(SortAscending(array))

Ordered(array, order) ==
    IF order = "asc" THEN pyarrow_sort(array, TRUE)
    ELSE IF order = "desc" THEN pyarrow_sort(array, FALSE)
    ELSE array

Orders == {"None", "asc", "desc"}

\* the values an empty payload is replaced by: pa.array([], vtype),
\* np.empty(0), Series([], dtype=object)
Empty == <<>>

\* HAtomCollection.q: HACOLPipe(hacol).start()
HacolQ(d, tgt) ==
    /\ pipes' = [pipes EXCEPT ![tgt] = HACOLPipe(hacols[d], FetchArray(HacolStartFetch(hacols[d])))]
    /\ Return("col.q", 0, tgt)
    /\ UNCHANGED <<aset, hacols, applied, clean>>

\* HACOLPipe.where, called on a pipeline whose payload is the DictionaryArray:
\* a comparison operator gives a mask, 'like' is not defined on the numbers
\* the columns hold, and any other condition leaves the payload as it is
HacolWhere(src, tgt, cond) ==
    /\ Chainable(src)
    /\ pipes[src].kind = "hacol"
    /\ pipes[src].fetch.t = "array"
    /\ LET self == Generate(pipes[src])
           h == hacols[self.hacol]
           parsed == ParseCondition(cond)
       IN /\ parsed[1] \in scalar_oplist \cup {"none"}
          /\ IF parsed[1] # "none" /\ parsed[2] = NULL THEN Raise("col.where", "ValueError")
             ELSE IF parsed[1] = "none" /\ Contains(cond, <<"l", "i", "k", "e">>)
             THEN Raise("col.where", "ArrowNotImplementedError")
             ELSE /\ pipes' = Generative(pipes, src, tgt,
                         [self EXCEPT
                             !.fetch = IF parsed[1] = "none" THEN @
                                       ELSE FetchMask(ExecuteScalarOperation(h, self.fetch.ix,
                                                                             parsed[1], parsed[2])),
                             !.operation = IF @ = "None" THEN "Restriction" ELSE @,
                             !.repr = Append(@, Call("where", cond))])
                  /\ Return("col.where", src, tgt)
                  /\ UNCHANGED <<aset, hacols, applied, clean>>

\* a guard that lets filter() follow any operation
FilterPermittedAfterAny(self) == self.operation # "None"

\* HACOLPipe.filter() without a mask argument: the operation before it has to
\* be a Restriction
FilterPermitted(self) == self.operation = "Restriction"

\* HACOLPipe.filter(): the payload is the mask of the where() before it; the
\* mask filters the whole column, so its length has to be the column's
HacolFilter(src, tgt) ==
    /\ Chainable(src)
    /\ pipes[src].kind = "hacol"
    /\ LET self == Generate(pipes[src])
           h == hacols[self.hacol]
       IN IF ~FilterPermitted(self) THEN Raise("col.filter", "InvalidPipeOperation")
          ELSE IF self.fetch.t # "mask" THEN Raise("col.filter", "TypeError")
          ELSE IF Len(self.fetch.m) # h.length THEN Raise("col.filter", "ArrowInvalid")
          ELSE /\ hacols' = [hacols EXCEPT ![self.hacol] = HacolFilterWithMask(h, self.fetch.m)]
               /\ pipes' = Generative(pipes, src, tgt,
                      [self EXCEPT !.fetch = FetchArray(Filter(h.indices, self.fetch.m)),
                                   !.operation = "Filtering",
                                   !.repr = Append(@, Call("filter", <<>>))])
               /\ Return("col.filter", src, tgt)
               /\ UNCHANGED <<aset, applied, clean>>

\* a count of the valid values only
ValuesValid(h) == h.valid

\* HAtomCollection.values_included: the values (valid and missing) the column
\* includes, its length in the unfiltered state
ValuesIncluded(h) == h.values

\* HACOLPipe.count
HacolCount(src, tgt, dataframe) ==
    /\ Chainable(src)
    /\ pipes[src].kind = "hacol"
    /\ LET self == Generate(pipes[src])
           h == hacols[self.hacol]
       IN IF h.filtered /\ self.fetch.t # "array" THEN Raise("col.count", "AttributeError")
          ELSE /\ pipes' = Generative(pipes, src, tgt,
                      [self EXCEPT
                          !.fetch = IF h.filtered
                                    THEN FetchCount(Len(Unique(SelectSeq(self.fetch.ix, NonNull))),
                                                    Len(self.fetch.ix), dataframe)
                                    ELSE FetchCount(h.unique, ValuesIncluded(h), dataframe),
                          !.operation = "Counting",
                          !.repr = Append(@, Call("count", <<>>))])
               /\ Return("col.count", src, tgt)
               /\ UNCHANGED <<aset, hacols, applied, clean>>

\* None, for an argument that is left out
None == NULL

\* the limits and offsets the caller passes
Limits == {None} \cup (0..MaxLimit)
Offsets == 0..MaxOffset

Min(x, y) == IF x <= y THEN x ELSE y

\* fetch[offset:limit] if limit else fetch[offset:] on an ndarray and on
\* Series.iloc: limit is the index the slice stops before
IndexSlice(fetch, limit, offset) ==
    IF limit # None /\ limit # 0
    THEN SubSeq(fetch, offset + 1, Min(limit, Len(fetch)))
    ELSE SubSeq(fetch, offset + 1, Len(fetch))

\* pa.Array.slice(offset, length): length values from offset on, to the end
\* of the array when length is None
ArraySlice(fetch, offset, length) ==
    IF length # None
    THEN SubSeq(fetch, Min(offset, Len(fetch)) + 1, Min(offset + length, Len(fetch)))
    ELSE SubSeq(fetch, Min(offset, Len(fetch)) + 1, Len(fetch))

\* the body shared by to_array, to_numpy and to_series, called on a pipeline
\* whose payload is the DictionaryArray: a non-empty payload is decoded,
\* ordered and cut to [offset:limit], an empty one is replaced by an empty
\* container
Transform(method, container, src, tgt, order, unique, limit, offset) ==
    /\ Chainable(src)
    /\ pipes[src].kind = "hacol"
    /\ pipes[src].fetch.t = "array"
    /\ LET self == Generate(pipes[src])
           h == hacols[self.hacol]
           values == Decode(h.dictionary, self.fetch.ix)
       IN pipes' = Generative(pipes, src, tgt,
              [self EXCEPT
                  !.fetch = IF Len(self.fetch.ix) > 0
                            THEN FetchValues(container,
                                     IndexSlice(Ordered(IF unique THEN Unique(values) ELSE values,
                                                        order), limit, offset))
                            ELSE FetchValues(container, Empty),
                  !.operation = "Transformation",
                  !.repr = Append(@, Call(method, <<>>))])
    /\ Return(method, src, tgt)
    /\ UNCHANGED <<aset, hacols, applied, clean>>

\* HACOLPipe.to_array(order, unique)
ToArray(src, tgt, order, unique) ==
    Transform("to_array", "Array", src, tgt, order, unique, None, 0)

\* HACOLPipe.to_numpy(order, limit, offset)
ToNumpy(src, tgt, order, limit, offset) ==
    Transform("to_numpy", "ndarray", src, tgt, order, FALSE, limit, offset)

\* HACOLPipe.to_series(order, limit, offset)
ToSeries(src, tgt, order, limit, offset) ==
    Transform("to_series", "Series", src, tgt, order, FALSE, limit, offset)

\* HACOLPipe.slice(limit, offset) on a payload that has a slice method (the
\* DictionaryArray, a mask, an Arrow array); an ndarray, a Series and a
\* count have none
HacolSlice(src, tgt, limit, offset) ==
    /\ Chainable(src)
    /\ pipes[src].kind = "hacol"
    /\ LET self == Generate(pipes[src])
           sliced == [self EXCEPT !.operation = IF @ = "None" THEN "Slicing" ELSE @,
                                  !.repr = Append(@, Call("slice", <<>>))]
       IN IF self.fetch.t \notin {"array", "mask", "Array"}
          THEN Raise("col.slice", "AttributeError")
          ELSE /\ pipes' = Generative(pipes, src, tgt,
                      IF self.fetch.t = "array"
                      THEN [sliced EXCEPT !.fetch = FetchArray(ArraySlice(self.fetch.ix, offset, limit))]
                      ELSE IF self.fetch.t = "mask"
                      THEN [sliced EXCEPT !.fetch = FetchMask(ArraySlice(self.fetch.m, offset, limit))]
                      ELSE [sliced EXCEPT !.fetch = FetchValues("Array",
                                                        ArraySlice(self.fetch.v, offset, limit))])
               /\ Return("col.slice", src, tgt)
               /\ UNCHANGED <<aset, hacols, applied, clean>>

\* an operation list that lacks Filtering
oplistOfTransformations ==
    {"Transformation", "Restriction", "Slicing", "Counting", "MemoryUsage",
     "Frequency", "Sum", "Average", "Projection", "Intersection", "Dictionary"}

\* the operations after which out() returns the payload
oplist ==
    {"Transformation", "Filtering", "Restriction", "Slicing", "Counting", "MemoryUsage",
     "Frequency", "Sum", "Average", "Projection", "Intersection", "Dictionary"}

\* HACOLPipe.out(): the terminal call returns the payload of the pipeline it
\* is called on, or raises when no operation of oplist is recorded
HacolOut(src) ==
    /\ pipes[src] # NoPipe
    /\ pipes[src].kind = "hacol"
    /\ IF pipes[src].operation \in oplist
       THEN /\ last' = [op |-> "col.out", exc |-> "none", before |-> NotObserved,
                        src |-> src, tgt |-> 0, out |-> pipes[src].fetch]
            /\ UNCHANGED <<aset, hacols, pipes, applied, clean>>
       ELSE Raise("col.out", "InvalidPipeOperation")

\* HAtomCollection.reset() of one column
HacolResetOne(d) ==
    /\ hacols' = [hacols EXCEPT ![d] = HacolReset(hacols[d])]
    /\ pipes' = NoPipes
    /\ ReturnAfter("col.reset")
    /\ UNCHANGED <<aset, applied, clean>>

\* the conditions the caller passes to the where() of a column
ColConds ==
    { <<"$", "v", ">", "9">>,
      <<"$", "v", "<", "2">>,
      <<"$", "v", ">", "=", "1">>,
      <<"$", "v", "=", "x">>,
      <<"$", "v", "!", "=", "1">>,
      <<"$", "v">> }

\* The row-set pipelines, one chained expression at a time
Next ==
    \/ Reset
    \/ ResetHacolsOnly
    \/ UpdateHacolsFilteredState
    \/ Q(1)
    \/ Select(1)
    \/ Count(1, 1)
    \/ \E cond \in Conds : Where(1, 1, cond, MaxApplied)
    \/ \E cond \in Conds : And(1, 1, cond, MaxApplied)
    \/ AsetFilter(1, 1)

\* the row sets of these pipelines: the first row is complete, the other
\* rows of the second column are free
InitRowSet ==
    \E batch \in Batches :
        /\ batch[2][1] = 1
        /\ Load(batch)

Spec == InitRowSet /\ [][Next]_vars

\* The column pipelines, one chained expression at a time
NextCol ==
    \/ \E d \in Attrs : HacolResetOne(d)
    \/ \E d \in Attrs : HacolQ(d, 1)
    \/ \E cond \in ColConds : HacolWhere(1, 1, cond)
    \/ HacolFilter(1, 1)
    \/ \E dataframe \in BOOLEAN : HacolCount(1, 1, dataframe)
    \/ \E order \in Orders, unique \in BOOLEAN : ToArray(1, 1, order, unique)
    \/ \E order \in Orders : ToNumpy(1, 1, order, None, 0)
    \/ \E order \in Orders : ToSeries(1, 1, order, None, 0)
    \/ HacolOut(1)

SpecCol == Init /\ [][NextCol]_vars

\* The transformations of a column with their limit and offset
NextSlice ==
    \/ \E d \in Attrs : HacolQ(d, 1)
    \/ \E limit \in Limits, offset \in Offsets : HacolSlice(1, 1, limit, offset)
    \/ \E order \in Orders, unique \in BOOLEAN : ToArray(1, 1, order, unique)
    \/ \E order \in Orders, limit \in Limits, offset \in Offsets :
           ToNumpy(1, 1, order, limit, offset)
    \/ \E order \in Orders, limit \in Limits, offset \in Offsets :
           ToSeries(1, 1, order, limit, offset)
    \/ HacolOut(1)

SpecSlice == Init /\ [][NextSlice]_vars

\* Successive Associative selections, each one a chained
\* select.where(cond).filter(), with full resets in between
SelConds ==
    { <<"a", "<", "2">>,
      <<"a", " ", ">", "=", " ", "2">>,
      <<"b", "=", "1">>,
      <<"$", "2", ">", "1">> }

NextSel ==
    \/ Reset
    \/ last.op \in {"load", "reset", "filter"} /\ Select(1)
    \/ last.op = "select" /\ \E cond \in SelConds : Where(1, 1, cond, MaxApplied)
    \/ last.op = "where" /\ AsetFilter(1, 1)

SpecSel == Init /\ [][NextSel]_vars

\* Pipelines the caller keeps in variables while it derives others from them
PipeConds == { <<"a", "<", "2">>, <<"b", "=", "1">>, <<"$", "2", ">", "1">> }
PipeColConds == { <<"$", "v", "<", "2">> }

InitPipes ==
    \E batch \in Batches :
        /\ batch[2] = [r \in Rows |-> IF r = 1 THEN 1 ELSE IF r = 2 THEN MaxVal ELSE NULL]
        /\ Load(batch)

\* the pipeline in slot s has no condition yet: the caller chains where()
\* first and And() after it
NoCondition(s) == pipes[s] # NoPipe /\ \A i \in 1..Len(pipes[s].repr) : pipes[s].repr[i].m # "where"

\* the caller starts its pipelines on a fully reset row set
FullyReset == last.op \in {"load", "reset"}

NextPipes ==
    \/ Reset
    \/ FullyReset /\ Q(1)
    \/ FullyReset /\ Select(1)
    \/ FullyReset /\ \E d \in Attrs : HacolQ(d, 1)
    \/ Count(1, MaxPipes)
    \/ \E tgt \in Slots : \E cond \in PipeConds :
          NoCondition(1) /\ Where(1, tgt, cond, MaxApplied + 1)
    \/ \E tgt \in Slots : \E cond \in PipeConds :
          ~NoCondition(1) /\ And(1, tgt, cond, MaxApplied + 1)
    \/ AsetFilter(1, MaxPipes)
    \/ \E tgt \in Slots : \E cond \in PipeColConds : HacolWhere(1, tgt, cond)
    \/ \E tgt \in Slots : HacolFilter(1, tgt)
    \/ \E tgt \in Slots : HacolCount(1, tgt, TRUE)
    \/ \E tgt \in Slots : ToArray(1, tgt, "asc", FALSE)
    \/ AsetFilter(2, 2)
    \/ Count(2, 2)

SpecPipes == InitPipes /\ [][NextPipes]_vars

\* Conditions of every form the parsers meet: with and without an operator,
\* naming attributes the row set has and attributes it does not have
ParseConds ==
    { <<"a", "<", "2">>,
      <<"b", "=", "1">>,
      <<"b">>,
      <<"$", "2">>,
      <<"b", "!", "=", "1">>,
      <<"c">>,
      <<"c", "<", "=", "1">>,
      <<"$", "3", "<", "1">> }

\* The row-set and column pipelines on conditions of every form
NextParse ==
    \/ Reset
    \/ Q(1)
    \/ Select(1)
    \/ \E cond \in ParseConds : Where(1, 1, cond, MaxApplied)
    \/ \E cond \in ParseConds : And(1, 1, cond, MaxApplied)
    \/ AsetFilter(1, 1)
    \/ \E d \in Attrs : HacolQ(d, 1)
    \/ \E cond \in ColConds : HacolWhere(1, 1, cond)

SpecParse == Init /\ [][NextParse]_vars

\* Successive filters in either mode from a fully reset row set, each one
\* a chained q.where(cond).filter().count() or select.where(cond).filter().count()
NextModes ==
    \/ Reset
    \/ last.op \in {"load", "reset", "count"} /\ Q(1)
    \/ last.op \in {"load", "reset", "count"} /\ Select(1)
    \/ last.op \in {"q", "select"} /\ \E cond \in SelConds : Where(1, 1, cond, MaxApplied)
    \/ last.op = "where" /\ AsetFilter(1, 1)
    \/ last.op = "filter" /\ Count(1, 1)

SpecModes == Init /\ [][NextModes]_vars

\* Normal-mode filters passed to the columns: a chained
\* q.where(cond).And(cond).filter(), then update_hacols_filtered_state(),
\* once or again, and a full reset before the next chain
NextPropagate ==
    \/ Reset
    \/ last.op \in {"load", "reset"} /\ Q(1)
    \/ last.op = "q" /\ \E cond \in PipeConds : Where(1, 1, cond, MaxApplied)
    \/ last.op = "where" /\ \E cond \in PipeConds : And(1, 1, cond, MaxApplied)
    \/ last.op \in {"where", "And"} /\ AsetFilter(1, 1)
    \/ last.op \in {"filter", "update_hacols"} /\ UpdateHacolsFilteredState

SpecPropagate == Init /\ [][NextPropagate]_vars

\* Normal filtering continued over a partial reset: a chain
\* q.where(cond).filter().count(), then the filtering is passed to the HACOLs
\* and the HACOLs are reset before the next chain starts
NextPartial ==
    \/ Reset
    \/ last.op \in {"load", "reset", "reset_hacols"} /\ Q(1)
    \/ last.op = "q" /\ \E cond \in PipeConds : Where(1, 1, cond, MaxApplied)
    \/ last.op = "where" /\ AsetFilter(1, 1)
    \/ last.op = "filter" /\ Count(1, 1)
    \/ last.op \in {"filter", "count"} /\ UpdateHacolsFilteredState
    \/ last.op = "update_hacols" /\ ResetHacolsOnly

SpecPartial == Init /\ [][NextPartial]_vars

\* The columns of a row set decoded and encoded again
NextCodec ==
    \/ Reset
    \/ Q(1)
    \/ \E cond \in PipeConds : Where(1, 1, cond, MaxApplied)
    \/ AsetFilter(1, 1)
    \/ ToRecordBatch(1, 1)
    \/ NumpyToPyarrow(1)

SpecCodec == Init /\ [][NextCodec]_vars

\* ------------------------------------------------------------------------
\* What the conditions mean, stated on the materialized values
\* ------------------------------------------------------------------------
\* the value a row holds for an attribute
ValueAt(d, r) == Decode(hacols[d].dictionary, hacols[d].indices)[r]

\* the comparison each condition string of the model stands for
Meaning(cond) ==
    CASE cond = <<"a", "<", "2">> -> [attr |-> 1, rel |-> "<", number |-> 2]
      [] cond = <<"a", " ", ">", "=", " ", "2">> -> [attr |-> 1, rel |-> ">=", number |-> 2]
      [] cond = <<"b", "=", "1">> -> [attr |-> 2, rel |-> "=", number |-> 1]
      [] cond = <<"$", "2", ">", "1">> -> [attr |-> 2, rel |-> ">", number |-> 1]
      [] cond = <<"b", "!", "=", "1">> -> [attr |-> 2, rel |-> "!=", number |-> 1]
      [] OTHER -> [attr |-> 0, rel |-> "?", number |-> 0]

\* row r satisfies the condition: it holds a value and the comparison is true
Satisfies(r, cond) ==
    LET c == Meaning(cond)
        v == ValueAt(c.attr, r)
    IN /\ c.attr \in Attrs
       /\ v # NULL
       /\ CASE c.rel = "<" -> v < c.number
            [] c.rel = ">=" -> v >= c.number
            [] c.rel = "=" -> v = c.number
            [] c.rel = ">" -> v > c.number
            [] c.rel = "!=" -> v # c.number

\* the rows that satisfy every condition of a sequence
RowsSatisfying(conds) ==
    {r \in 1..aset.num_rows : \A i \in 1..Len(conds) : Satisfies(r, conds[i])}

\* the rows the mask keeps
RowsKept == {r \in 1..aset.num_rows : aset.mask[r] = "T"}

SumCnt(h) ==
    LET S[p \in -1..(h.unique - 1)] == IF p = -1 THEN 0 ELSE S[p - 1] + h.sdict.cnt[p]
    IN S[h.unique - 1]

Returned(op) == last.op = op /\ last.exc = "none"

\* the chained calls of the pipeline in slot s, by method name
Methods(s) == [i \in 1..Len(pipes[s].repr) |-> pipes[s].repr[i].m]

ChainIs(s, methods) == pipes[s] # NoPipe /\ Methods(s) = methods

\* the truth value a condition has on a row: null on a null value
Truth(r, cond) ==
    IF ValueAt(Meaning(cond).attr, r) = NULL THEN "N"
    ELSE IF Satisfies(r, cond) THEN "T" ELSE "F"

\* the mask a sequence of conditions leaves: an entry is true when the row
\* satisfies them all, else it is what the first condition that is not true says
ExpectedMask(conds) ==
    [r \in 1..aset.num_rows |->
        LET bad == {i \in 1..Len(conds) : Truth(r, conds[i]) # "T"}
        IN IF bad = {} THEN "T"
           ELSE Truth(r, conds[CHOOSE i \in bad : \A j \in bad : i <= j])]

\* ------------------------------------------------------------------------
\* Claims
\* ------------------------------------------------------------------------
\* C1: immediately after every ASETPipe.filter() and after every full
\* ASET.reset(), rows_included (hbonds) equals the number of true entries of
\* the row mask.
C1_MaskCountConsistency ==
    (Returned("filter") \/ Returned("reset")) => aset.hbonds = Popcount(aset.mask)

\* C1 witness: a filter() has run on a mask that holds true, false and null entries
C1_Witness ==
    /\ Returned("filter")
    /\ Range(aset.mask) = {"T", "F", "N"}
    /\ aset.hbonds = 1

\* C2: from a fully reset row set, q.where(A).And(B).filter().count() is the
\* number of rows that satisfy A and B, a number that does not depend on the
\* order of A and B.
C2_ConjunctiveCount ==
    (Returned("count") /\ ChainIs(1, <<"where", "where", "filter", "count">>)
        /\ clean /\ Len(applied) = 2)
    => pipes[1].fetch =
           FetchInt(Cardinality({r \in 1..aset.num_rows :
                                    Satisfies(r, applied[1]) /\ Satisfies(r, applied[2])}))

\* C2 witness: two conditions on different columns, one of which alone keeps
\* more rows than both together
C2_Witness ==
    /\ Returned("count")
    /\ ChainIs(1, <<"where", "where", "filter", "count">>)
    /\ clean /\ Len(applied) = 2
    /\ Meaning(applied[1]).attr # Meaning(applied[2]).attr
    /\ pipes[1].fetch = FetchInt(1)
    /\ \E i \in 1..2 : Cardinality(RowsSatisfying(<<applied[i]>>)) > 1

C3_Case ==
    /\ Returned("filter")
    /\ ChainIs(1, <<"select", "where", "filter">>)
    /\ clean /\ Len(applied) = 1

\* C3 as stated: after select.where(cond on X).filter() on a fully reset row
\* set, the cnt of every other column Y sums to rows_included.
C3_AssociativePropagation ==
    C3_Case => \A d \in Attrs \ {pipes[1].hacol} : SumCnt(hacols[d]) = aset.hbonds

\* C3 amended: the cnt of every other column Y sums to the number of included
\* rows whose Y entry is not null.
C3_AssociativePropagationValid ==
    C3_Case => \A d \in Attrs \ {pipes[1].hacol} :
                  SumCnt(hacols[d]) =
                      Cardinality({r \in RowsKept : hacols[d].indices[r] # NULL})

\* C3 witness: an included row holds a null in another column
C3_Witness ==
    /\ C3_Case
    /\ \E d \in Attrs \ {pipes[1].hacol} :
          /\ SumCnt(hacols[d]) > 0
          /\ \E r \in RowsKept : hacols[d].indices[r] = NULL

\* C4: a full reset() leaves the mask all true, rows_included = row_count,
\* filtered = false and every column with cnt = freq, sel = inc = false, the
\* full column as filtered view and (unique, length) as included counters;
\* count() then returns row_count and a second reset() changes nothing.
C4_ResetPostcondition ==
    Returned("reset") =>
        /\ aset.mask = AllTrue(aset.num_rows)
        /\ aset.hbonds = aset.num_rows
        /\ ~aset.filtered
        /\ \A d \in Attrs :
              /\ hacols[d].sdict.cnt = hacols[d].sdict.freq
              /\ \A p \in Positions(hacols[d]) :
                    ~hacols[d].sdict.sel[p] /\ ~hacols[d].sdict.inc[p]
              /\ hacols[d].filtered_data = hacols[d].indices
              /\ hacols[d].hatoms = hacols[d].unique
              /\ hacols[d].values = hacols[d].length
        /\ CountValue(aset) = aset.num_rows
        /\ aset = [aset EXCEPT !.mask = AllTrue(aset.num_rows), !.filtered = FALSE,
                               !.hbonds = aset.num_rows]
        /\ \A d \in Attrs :
              hacols[d] = [hacols[d] EXCEPT
                              !.hatoms = hacols[d].unique, !.values = hacols[d].length,
                              !.filtered = FALSE, !.filtered_data = hacols[d].indices,
                              !.sdict.cnt = hacols[d].sdict.freq,
                              !.sdict.inc = [p \in Positions(hacols[d]) |-> FALSE],
                              !.sdict.sel = [p \in Positions(hacols[d]) |-> FALSE]]

\* C4 witness: reset() called on a row set that an Associative-mode filter
\* had narrowed
C4_Witness ==
    /\ Returned("reset")
    /\ last.before.hbonds # NULL
    /\ last.before.hbonds < aset.num_rows
    /\ last.before.inc

\* C7: a where, And or filter chained on a Normal-mode pipeline leaves every
\* column (StateDictionary, filtered view, included counters) as it was.
C7_NormalModeFrame ==
    [][(/\ pipes[1] # NoPipe
        /\ pipes[1].filtering_mode = "Normal"
        /\ last'.op \in {"where", "And", "filter"}) => hacols' = hacols]_vars

\* C7 witness: a Normal-mode filter() has removed rows and the columns are
\* still in their reset state
C7_Witness ==
    /\ Returned("filter")
    /\ ChainIs(1, <<"where", "filter">>)
    /\ aset.hbonds < aset.num_rows
    /\ \A d \in Attrs :
          /\ hacols[d].sdict.cnt = hacols[d].sdict.freq
          /\ hacols[d].filtered_data = hacols[d].indices
          /\ ~hacols[d].filtered

\* C8: after an Associative-mode filter(), for every column and dictionary
\* position, cnt is the number of included rows whose index is that position
\* and inc is true exactly when cnt > 0.
C8_AssociativeCounts ==
    (Returned("filter") /\ pipes[1] # NoPipe /\ pipes[1].filtering_mode = "Associative")
    => \A d \in Attrs : \A p \in Positions(hacols[d]) :
          /\ hacols[d].sdict.cnt[p] =
                 Cardinality({r \in RowsKept : hacols[d].indices[r] = p})
          /\ hacols[d].sdict.inc[p] = (hacols[d].sdict.cnt[p] > 0)

\* C8 witness: a column other than the one of the condition has a position
\* that lost rows and a position that lost all of them
C8_Witness ==
    /\ Returned("filter")
    /\ ChainIs(1, <<"select", "where", "filter">>)
    /\ \E d \in Attrs \ {pipes[1].hacol} :
          /\ \E p \in Positions(hacols[d]) :
                hacols[d].sdict.cnt[p] > 0 /\ hacols[d].sdict.cnt[p] < hacols[d].sdict.freq[p]
          /\ \E p \in Positions(hacols[d]) : ~hacols[d].sdict.inc[p]

\* the chained expression x.filter().count(): count() is called on the object
\* the filter() before it returned; x is a Normal-mode pipeline with two
\* conditions, the first of which is the first one folded into the mask since
\* the reset
C5_Case ==
    /\ last.op = "filter" /\ last.exc = "none"
    /\ last'.op = "count" /\ last'.exc = "none"
    /\ last'.src = last.tgt
    /\ pipes[last.tgt].kind = "aset"
    /\ pipes[last.tgt].filtering_mode = "Normal"
    /\ Methods(last.tgt) = <<"where", "where", "filter">>
    /\ clean
    /\ Len(applied) \in {2, 3}
    /\ applied[1] = pipes[last.tgt].repr[1].arg
    /\ \E i \in 2..Len(applied) : applied[i] = pipes[last.tgt].repr[2].arg

\* c = a.And(C) is held next to b = a.And(B): both start with the where(A) of
\* a, and A, B and C are the conditions folded into the mask since the reset
C5_Sibling ==
    \E other \in Slots \ {last.tgt} :
        /\ pipes[other] # NoPipe
        /\ pipes[other].kind = "aset"
        /\ Len(pipes[other].repr) >= 2
        /\ pipes[other].repr[1] = pipes[last.tgt].repr[1]
        /\ pipes[other].repr[2].m = "where"
        /\ \A i \in 3..Len(pipes[other].repr) : pipes[other].repr[i].m # "where"
        /\ Len(applied) = 3
        /\ \/ /\ applied[2] = pipes[last.tgt].repr[2].arg
              /\ applied[3] = pipes[other].repr[2].arg
           \/ /\ applied[3] = pipes[last.tgt].repr[2].arg
              /\ applied[2] = pipes[other].repr[2].arg

\* C5 as stated: with a = q.where(A), b = a.And(B), c = a.And(C) on a fully
\* reset row set, b.filter().count() is the number of rows satisfying A and B
\* (and c.filter().count() that of A and C), in whatever order b and c are
\* built and filtered.
C5_IndependentPipelines ==
    [][(C5_Case /\ C5_Sibling) =>
          pipes'[last'.tgt].fetch =
              FetchInt(Cardinality(RowsSatisfying(<<pipes[last.tgt].repr[1].arg,
                                                    pipes[last.tgt].repr[2].arg>>)))]_vars

\* C5 amended: b.filter().count() is the number of rows satisfying every
\* condition folded into the mask of the shared row set since the reset: A
\* and B, and also C when c was built before b is filtered.
C5_SharedMask ==
    [][C5_Case =>
          pipes'[last'.tgt].fetch = FetchInt(Cardinality(RowsSatisfying(applied)))]_vars

\* C5 witness: b and c are both derived from a; b.filter().count() has
\* returned fewer rows than satisfy A and B
C5_Witness ==
    /\ Returned("count")
    /\ last.tgt \in Slots
    /\ ChainIs(last.tgt, <<"where", "where", "filter", "count">>)
    /\ clean
    /\ applied[1] = pipes[last.tgt].repr[1].arg
    /\ C5_Sibling
    /\ pipes[last.tgt].fetch.n <
           Cardinality(RowsSatisfying(<<pipes[last.tgt].repr[1].arg,
                                        pipes[last.tgt].repr[2].arg>>))

\* C6: a chained step of ASETPipe or HACOLPipe returns a new pipeline object,
\* which holds one call more, and leaves every field of the object it was
\* called on unchanged.
C6_GenerativeFrame ==
    [][(last'.exc = "none" /\ last'.src # 0 /\ last'.src # last'.tgt) =>
          /\ pipes'[last'.src] = pipes[last'.src]
          /\ pipes'[last'.tgt] # NoPipe
          /\ Len(pipes'[last'.tgt].repr) = Len(pipes[last'.src].repr) + 1
          /\ SubSeq(pipes'[last'.tgt].repr, 1, Len(pipes[last'.src].repr))
                 = pipes[last'.src].repr]_vars

\* C6 witness: where() was called on the pipeline q returned; the new object
\* has the mask, the column and the operation, the old one is as q left it
C6_Witness ==
    /\ Returned("where")
    /\ last.src = 1 /\ last.tgt = 2
    /\ pipes[1] = ASETPipe(FetchBatch(FilteredData(AsetResetFields(aset))))
    /\ pipes[2].repr = Append(pipes[1].repr, Call("where", applied[1]))
    /\ pipes[2].fetch.t = "mask"
    /\ pipes[2].hacol # pipes[1].hacol
    /\ pipes[2].operation = "Restriction"

\* a pipeline holding the DictionaryArray of a column that a filter() left
\* without values
C9_Case ==
    /\ pipes[1] # NoPipe
    /\ pipes[1].kind = "hacol"
    /\ pipes[1].fetch.t = "array"
    /\ hacols[pipes[1].hacol].filtered
    /\ hacols[pipes[1].hacol].values = 0

\* C9: after a column chain q.where(cond).filter() that matches no row,
\* count() reports 0 included values and 0 included atoms, and to_array,
\* to_numpy and to_series return an empty result; none of them raises.
C9_EmptyResultSafety ==
    [][(C9_Case /\ last'.op \in {"col.count", "to_array", "to_numpy", "to_series"}) =>
          /\ last'.exc = "none"
          /\ IF last'.op = "col.count"
             THEN pipes'[1].fetch.atoms = 0 /\ pipes'[1].fetch.values = 0
             ELSE pipes'[1].fetch.v = <<>>]_vars

\* C9 witness: to_series() on a new pipeline of a column that holds values
\* and that q.where(cond).filter() left without any
C9_Witness ==
    /\ Returned("to_series")
    /\ ChainIs(1, <<"to_series">>)
    /\ hacols[pipes[1].hacol].valid > 0
    /\ hacols[pipes[1].hacol].filtered
    /\ hacols[pipes[1].hacol].values = 0
    /\ pipes[1].fetch = FetchValues("Series", <<>>)

\* C10: the row mask is a function of the conditions applied since the last
\* full reset, in their order, however they are split over pipelines; after
\* each filter() the count is the number of rows satisfying all of them.
C10_SuccessiveEqualsConjunctive ==
    clean =>
        /\ aset.mask = ExpectedMask(applied)
        /\ Returned("filter") => aset.hbonds = Cardinality(RowsSatisfying(applied))

\* C10 witness: the second of two separate pipelines q.where(c).filter() has
\* run; its condition alone keeps more rows than the two together
C10_Witness ==
    /\ Returned("filter")
    /\ ChainIs(1, <<"where", "filter">>)
    /\ pipes[1].filtering_mode = "Normal"
    /\ clean /\ Len(applied) = 2
    /\ applied[2] = pipes[1].repr[1].arg
    /\ aset.hbonds = 1
    /\ Cardinality(RowsSatisfying(<<applied[2]>>)) > 1

\* C11: ASETPipe.filter() on a pipeline in whose chain no where()/And() has
\* been evaluated raises the sequence error (InvalidPipeOperation), in Normal
\* and in Associative mode alike, and the row set is not marked as filtered.
C11_FilterNeedsPredicate ==
    [][(/\ pipes[1] # NoPipe
        /\ pipes[1].kind = "aset"
        /\ NoCondition(1)
        /\ last'.op = "filter") =>
          /\ last'.exc = "InvalidPipeOperation"
          /\ aset'.filtered = aset.filtered]_vars

\* C12: HACOLPipe.filter() without a mask argument, on a pipeline whose
\* operation no where()/like() has set to Restriction, raises
\* InvalidPipeOperation and leaves every column as it was: filtered view,
\* included counters, filtered flag and StateDictionary.
C12_FilterWithoutRestriction ==
    [][(/\ pipes[1] # NoPipe
        /\ pipes[1].kind = "hacol"
        /\ pipes[1].operation # "Restriction"
        /\ last'.op = "col.filter") =>
          /\ last'.exc = "InvalidPipeOperation"
          /\ hacols' = hacols]_vars

\* C12 witness: filter() was refused on a column that an earlier
\* q.where(cond).filter() had left filtered
C12_Witness ==
    /\ last.op = "col.filter"
    /\ last.exc = "InvalidPipeOperation"
    /\ \E d \in Attrs : hacols[d].filtered /\ hacols[d].values < hacols[d].length

\* the column pipeline in slot 1 ends with filter()
C13_Case ==
    /\ pipes[1] # NoPipe
    /\ pipes[1].kind = "hacol"
    /\ pipes[1].repr # <<>>
    /\ pipes[1].repr[Len(pipes[1].repr)].m = "filter"

\* C13 as stated: out() called directly after the filter() of a column
\* pipeline, with no transform or export step in between, raises the
\* sequence error.
C13_OutAfterFilterRaises ==
    [][(C13_Case /\ last'.op = "col.out") => last'.exc = "InvalidPipeOperation"]_vars

\* C13: out() called directly after the filter() of a column pipeline returns
\* the filtered DictionaryArray of the column; out() returns the payload of
\* the pipeline after every recorded operation and raises InvalidPipeOperation
\* only on a pipeline that has recorded none (directly after q).
C13_OutAfterFilterReturns ==
    [][(pipes[1] # NoPipe /\ pipes[1].kind = "hacol" /\ last'.op = "col.out") =>
          /\ C13_Case =>
                /\ last'.exc = "none"
                /\ last'.out = FetchArray(hacols[pipes[1].hacol].filtered_data)
          /\ pipes[1].repr # <<>> => (last'.exc = "none" /\ last'.out = pipes[1].fetch)
          /\ pipes[1].repr = <<>> => last'.exc = "InvalidPipeOperation"]_vars

\* C13 witness: q.where(cond).filter().out() returned a filtered column that
\* kept some rows and dropped others
C13_Witness ==
    /\ Returned("col.out")
    /\ ChainIs(1, <<"where", "filter">>)
    /\ last.out.t = "array"
    /\ 0 < Len(last.out.ix)
    /\ Len(last.out.ix) < hacols[pipes[1].hacol].length

\* the condition holds none of the operators and not the keyword like
C14_NoOperator(cond) == \A i \in 1..Len(rel_operators) : ~Contains(cond, rel_operators[i])

\* C14 as stated: a where() of the column pipeline or of the row-set pipeline
\* whose condition holds none of >=, <=, <, >, =, != and not the keyword like
\* fails with an error; no such where() returns.
C14_NoOperatorFails ==
    [][(last'.op \in {"where", "col.where"} /\ last'.exc = "none") =>
          ~C14_NoOperator(pipes'[1].repr[Len(pipes'[1].repr)].arg)]_vars

\* the attribute an operator-less condition of the model names, 0 when the
\* row set has no such attribute
C14_Names(cond) ==
    CASE cond = <<"b">> -> 2
      [] cond = <<"$", "2">> -> 2
      [] OTHER -> 0

\* C14: a where() whose condition holds no operator and not the keyword like
\* does not fail.  On the column pipeline it returns with the payload it was
\* called on and records a Restriction when no operation was recorded.  On
\* the row-set pipeline, for an attribute of the row set that holds nonzero
\* numbers and on a row mask that is all true, it returns with the column's
\* DictionaryArray as payload and leaves the row set unrestricted.
C14_NoOperatorPassesThrough ==
    [][\A cond \in ColConds \cup ParseConds :
          C14_NoOperator(cond) =>
             /\ HacolWhere(1, 1, cond) =>
                   /\ last'.exc = "none"
                   /\ pipes'[1].fetch = pipes[1].fetch
                   /\ pipes'[1].operation =
                          (IF pipes[1].operation = "None" THEN "Restriction"
                           ELSE pipes[1].operation)
                   /\ hacols' = hacols
             /\ (/\ Where(1, 1, cond, MaxApplied)
                 /\ C14_Names(cond) # 0
                 /\ hacols[2].unique > 0
                 /\ aset.mask = AllTrue(aset.num_rows)) =>
                   /\ last'.exc = "none"
                   /\ pipes'[1].fetch = FetchArray(hacols[2].indices)
                   /\ aset' = aset
                   /\ hacols' = hacols]_vars

\* C14 witness: q.where('b') returned on a fully reset row set whose column b
\* holds a value and a null; the payload is the column, the mask is all true
C14_Witness ==
    /\ Returned("where")
    /\ ChainIs(1, <<"where">>)
    /\ pipes[1].repr[1].arg = <<"b">>
    /\ pipes[1].fetch = FetchArray(hacols[2].indices)
    /\ hacols[2].unique > 0 /\ hacols[2].missing > 0
    /\ aset.mask = AllTrue(aset.num_rows)

\* the operator a condition string holds, the longest one first
C15_Symbol(cond) ==
    IF Contains(cond, <<"!", "=">>) THEN <<"!", "=">>
    ELSE IF Contains(cond, <<">", "=">>) THEN <<">", "=">>
    ELSE IF Contains(cond, <<"<", "=">>) THEN <<"<", "=">>
    ELSE IF Contains(cond, <<"<">>) THEN <<"<">>
    ELSE IF Contains(cond, <<">">>) THEN <<">">>
    ELSE IF Contains(cond, <<"=">>) THEN <<"=">>
    ELSE <<>>

\* the comparison that belongs to an operator
C15_Comparison(sym) ==
    CASE sym = <<"!", "=">> -> "not_equal"
      [] sym = <<">", "=">> -> "greater_equal"
      [] sym = <<"<", "=">> -> "less_equal"
      [] sym = <<"<">> -> "less"
      [] sym = <<">">> -> "greater"
      [] sym = <<"=">> -> "equal"

\* the text before and the number after the operator
C15_Attr(cond) == Strip(Slice(cond, 0, Find(cond, C15_Symbol(cond))))
C15_Number(cond) ==
    ParseNumber(SliceFrom(cond, Find(cond, C15_Symbol(cond)) + Len(C15_Symbol(cond))))

\* C15: for each operator of >=, <=, <, >, =, != a condition '<attr> op
\* <number>' is evaluated as the matching comparison with the number as
\* operand: the column where() returns the mask of that comparison (for !=
\* true exactly on the values that differ from the number), and the row-set
\* where() resolves the text before the operator as the attribute.
C15_OperatorSemantics ==
    [][\A cond \in ColConds \cup ParseConds :
          (C15_Symbol(cond) # <<>> /\ C15_Number(cond) # NULL) =>
             /\ HacolWhere(1, 1, cond) =>
                   /\ last'.exc = "none"
                   /\ pipes'[1].fetch =
                         FetchMask([i \in 1..Len(pipes[1].fetch.ix) |->
                             Compare(C15_Comparison(C15_Symbol(cond)),
                                     Decode(hacols[pipes[1].hacol].dictionary,
                                            pipes[1].fetch.ix)[i],
                                     C15_Number(cond))])
             /\ (Where(1, 1, cond, MaxApplied)
                 /\ \E d \in Attrs : C15_Attr(cond) = <<CName(d)>>) =>
                   last'.exc # "AttributeError"]_vars

\* the attribute reference of a condition: the text before its operator, or
\* the whole condition when it holds none
C16_Ref(cond) ==
    Strip(IF C15_Symbol(cond) = <<>> THEN cond
          ELSE Slice(cond, 0, Find(cond, C15_Symbol(cond))))

\* the reference names no attribute of the row set, by name or by $dim2
C16_Unknown(cond) ==
    LET ref == C16_Ref(cond)
    IN IF ref # <<>> /\ ref[1] = "$" THEN ParseNumber(Tail(ref)) \notin Attrs
       ELSE \A d \in Attrs : ref # <<CName(d)>>

\* C16: a row-set where() or And() whose condition names an attribute the row
\* set does not have, by name or by $dim2, fails at once and leaves the row
\* mask, rows_included, the filtered flag and every StateDictionary unchanged.
C16_UnknownAttributeFails ==
    [][\A cond \in ParseConds :
          (/\ C16_Unknown(cond)
           /\ Where(1, 1, cond, MaxApplied) \/ And(1, 1, cond, MaxApplied)) =>
             /\ last'.exc \in {"AttributeError", "KeyError"}
             /\ aset' = aset
             /\ hacols' = hacols]_vars

\* C16 witness: And('$3<1') failed on the chain select.where(cond).filter(),
\* which had narrowed the row set and set included states
C16_Witness ==
    /\ last.op = "And"
    /\ last.exc = "KeyError"
    /\ aset.filtered
    /\ aset.hbonds < aset.num_rows
    /\ \E d \in Attrs : \E p \in Positions(hacols[d]) : hacols[d].sdict.inc[p]

\* C17: ASET.reset(hacols_only=True), from any state, sets the StateDictionary
\* of every column to cnt = freq, sel = false, inc = false and its filtered
\* view to the full column, and leaves the row mask, rows_included and the
\* filtered flag of the row set as they were.
C17_PartialResetFrame ==
    [][last'.op = "reset_hacols" =>
          /\ aset' = aset
          /\ \A d \in Attrs :
                /\ hacols'[d].sdict.cnt = hacols'[d].sdict.freq
                /\ \A p \in Positions(hacols'[d]) :
                      ~hacols'[d].sdict.sel[p] /\ ~hacols'[d].sdict.inc[p]
                /\ hacols'[d].filtered_data = hacols'[d].indices
                /\ ~hacols'[d].filtered]_vars

\* C17 witness: the partial reset ran on a filtered row set whose mask had
\* dropped rows and whose columns had included states
C17_Witness ==
    /\ Returned("reset_hacols")
    /\ last.before.inc
    /\ aset.filtered
    /\ aset.hbonds < aset.num_rows
    /\ Popcount(aset.mask) < aset.num_rows

\* C18: after q.where(A).filter(), update_hacols_filtered_state() and
\* reset(hacols_only=True), a further q.where(B).filter() returns without
\* error and its count is the number of rows that satisfy both A and B.
C18_FilterAfterPartialReset ==
    /\ last.op \in {"where", "filter", "count"} => last.exc = "none"
    /\ (Returned("filter") /\ Len(applied) = 2) =>
           aset.hbonds = Cardinality(RowsSatisfying(applied))
    /\ (Returned("count") /\ Len(applied) = 2) =>
           pipes[1].fetch = FetchInt(Cardinality(RowsSatisfying(applied)))

\* C18 witness: the count of the second chain, after the partial reset; A
\* had dropped rows, and B alone keeps more rows than A and B together
C18_Witness ==
    /\ Returned("count")
    /\ ChainIs(1, <<"where", "filter", "count">>)
    /\ Len(applied) = 2
    /\ applied[2] = pipes[1].repr[1].arg
    /\ Cardinality(RowsSatisfying(<<applied[1]>>)) < aset.num_rows
    /\ pipes[1].fetch = FetchInt(1)
    /\ Cardinality(RowsSatisfying(<<applied[2]>>)) > 1

\* the pair a returned count() holds, stated on the column and the payload
\* the count was called on: in the filtered state the distinct non-null
\* positions and the length of the filtered index array
C19_Counts(unfiltered_values) ==
    LET h == hacols[pipes[1].hacol]
        ix == pipes[1].fetch.ix
    IN IF h.filtered
       THEN /\ pipes'[1].fetch.atoms = Cardinality(Range(ix) \ {NULL})
            /\ pipes'[1].fetch.values = Len(ix)
       ELSE /\ pipes'[1].fetch.atoms = Len(h.dictionary)
            /\ pipes'[1].fetch.values = unfiltered_values

\* C19 as stated: the column count() returns (unique, valid) in the
\* unfiltered state, valid = length - missing leaving out the null rows, and
\* (distinct non-null positions, length) of the filtered index array in the
\* filtered state.
C19_CountUniqueValid ==
    [][(last'.op = "col.count" /\ last'.exc = "none") =>
          C19_Counts(Len(SelectSeq(hacols[pipes[1].hacol].indices, NonNull)))]_vars

\* C19: the column count() returns (unique, length) in the unfiltered state,
\* the length counting the null rows too, and (distinct non-null positions,
\* length) of the filtered index array in the filtered state.
C19_CountUniqueLength ==
    [][(last'.op = "col.count" /\ last'.exc = "none") =>
          C19_Counts(Len(hacols[pipes[1].hacol].indices))]_vars

\* C19 witness: q.count() returned on an unfiltered column that holds a value
\* and a null; the second number is the length of the column
C19_Witness ==
    /\ Returned("col.count")
    /\ ChainIs(1, <<"count">>)
    /\ ~hacols[pipes[1].hacol].filtered
    /\ hacols[pipes[1].hacol].missing > 0
    /\ hacols[pipes[1].hacol].unique > 0
    /\ pipes[1].fetch.values = hacols[pipes[1].hacol].length
    /\ pipes[1].fetch.atoms = hacols[pipes[1].hacol].unique

C21_View(order) ==
    Ordered(Decode(hacols[pipes[1].hacol].dictionary, pipes[1].fetch.ix), order)

C21_LimitCountsValues ==
    [][\A order \in Orders, limit \in 1..MaxLimit, offset \in Offsets :
          (ToNumpy(1, 1, order, limit, offset) \/ ToSeries(1, 1, order, limit, offset))
              => pipes'[1].fetch.v = ArraySlice(C21_View(order), offset, limit)]_vars

\* ------------------------------------------------------------------------
\* C22: in every reachable state of a row set, the states between a
\* where()/And() step and the next filter() included, rows_included equals
\* the number of true entries of the row mask and rows_included <= row_count
\* ------------------------------------------------------------------------
C22_RowsIncludedIsPopcount ==
    /\ aset.hbonds = Popcount(aset.mask)
    /\ aset.hbonds <= aset.num_rows

\* C22, as the code has it: rows_included <= row_count and the true entries
\* of the mask are never more than rows_included in every reachable state;
\* the two are equal after a full reset and after each filter(), and
\* where()/And() narrow the mask while rows_included keeps its value
C22_RowsIncludedAfterFilter ==
    /\ aset.hbonds <= aset.num_rows
    /\ Popcount(aset.mask) <= aset.hbonds
    /\ (last.op \in {"load", "reset", "filter"} /\ last.exc = "none")
           => aset.hbonds = Popcount(aset.mask)

C22_Witness ==
    /\ last.op = "filter"
    /\ last.exc = "none"
    /\ aset.hbonds = Popcount(aset.mask)
    /\ aset.hbonds < aset.num_rows

\* ------------------------------------------------------------------------
\* C23: in every reachable state of a row set the filtered flag is true if
\* and only if rows_included < row_count, so that filtered and is_filtered()
\* agree, also after a filter() whose conditions every row satisfies
\* ------------------------------------------------------------------------
C23_IsFiltered == aset.hbonds < aset.num_rows

C23_FilteredIffFewerRows == aset.filtered <=> C23_IsFiltered

\* ------------------------------------------------------------------------
\* C24: in Associative mode filter() records the selection on the column of
\* the most recent predicate of the chain: after
\* select.where(cond on X).And(cond on Y).filter() with X different from Y,
\* sel is true on Y for the positions of Y still present in the filtered rows
\* ------------------------------------------------------------------------
C24_X == pipes[1].hacol
C24_Y == GetHacolFromCondition(pipes[1].repr[3].arg).dim2

\* the dictionary positions of a column that the rows the mask keeps hold
C24_Present(d) == Range(BatchColumn(hacols[d], FilteredData(aset))) \ {NULL}

\* filter() is called on select.where(cond on X).And(cond on Y) and returns
C24_Case ==
    /\ ChainIs(1, <<"select", "where", "where">>)
    /\ C24_X # C24_Y
    /\ AsetFilter(1, 1)
    /\ last'.exc = "none"

C24_SelectionOnLastPredicate ==
    [][C24_Case => \A p \in C24_Present(C24_Y) : hacols'[C24_Y].sdict.sel[p]]_vars

\* C24, as the code has it: filter() records the selection on the column of
\* the chain's where(), X, for the positions of X still present in the
\* filtered rows, and leaves the sel of the And() column Y as it was
C24_SelectionOnWhereColumn ==
    [][C24_Case => /\ \A p \in C24_Present(C24_X) : hacols'[C24_X].sdict.sel[p]
                   /\ hacols'[C24_Y].sdict.sel = hacols[C24_Y].sdict.sel]_vars

C24_Witness ==
    /\ Returned("filter")
    /\ ChainIs(1, <<"select", "where", "where", "filter">>)
    /\ C24_X # C24_Y
    /\ aset.hbonds < aset.num_rows
    /\ \E p \in Positions(hacols[C24_X]) : hacols[C24_X].sdict.sel[p]
    /\ \E p \in Positions(hacols[C24_Y]) :
          hacols[C24_Y].sdict.inc[p] /\ ~hacols[C24_Y].sdict.sel[p]

\* ------------------------------------------------------------------------
\* C25: sel is true exactly when the value satisfies the most recently
\* evaluated predicate on its column: after two successive Associative
\* selections select.where(c1 on X).filter() and select.where(c2 on X).filter()
\* with no reset in between, sel on X is true only for values that satisfy c2
\* ------------------------------------------------------------------------
C25_X == Meaning(applied[2]).attr

\* the second of two selections on the same column has returned
C25_Case ==
    /\ Returned("filter")
    /\ Len(applied) = 2
    /\ Meaning(applied[1]).attr = C25_X

\* the value at a dictionary position of X satisfies the condition
C25_Satisfies(p, cond) ==
    \E r \in 1..aset.num_rows : hacols[C25_X].indices[r] = p /\ Satisfies(r, cond)

C25_SelIsLastPredicate ==
    C25_Case => \A p \in Positions(hacols[C25_X]) :
                    hacols[C25_X].sdict.sel[p] => C25_Satisfies(p, applied[2])

\* C25, as the code has it: a selection only sets sel, and the reset alone
\* clears it; after the two selections sel on X is true exactly for the
\* values that satisfy c1, those that do not satisfy c2 included
C25_SelAccumulates ==
    C25_Case => \A p \in Positions(hacols[C25_X]) :
                    hacols[C25_X].sdict.sel[p] <=> C25_Satisfies(p, applied[1])

C25_Witness ==
    /\ C25_Case
    /\ \E p \in Positions(hacols[C25_X]) :
          /\ hacols[C25_X].sdict.sel[p]
          /\ ~C25_Satisfies(p, applied[2])
          /\ ~hacols[C25_X].sdict.inc[p]

\* ------------------------------------------------------------------------
\* C26: the column state machine is re-entrant: on a column left filtered by
\* q.where(c1).filter() that removed at least one row, a further
\* q.where(c2).filter() without reset succeeds, evaluates c2 on the filtered
\* view and intersects it, so that the view holds the rows that satisfy c1
\* and c2 and values_included is their number
\* ------------------------------------------------------------------------
C26_Hacol == hacols[pipes[1].hacol]

\* filter() is called on the q.where(c2) of a column that an earlier
\* filter() left with fewer values than its length
C26_Case ==
    /\ ChainIs(1, <<"where">>)
    /\ pipes[1].kind = "hacol"
    /\ pipes[1].fetch.t = "mask"
    /\ C26_Hacol.filtered
    /\ HacolIsFiltered(C26_Hacol)
    /\ HacolFilter(1, 1)

C26_Reentrant ==
    [][C26_Case =>
          /\ last'.exc = "none"
          /\ hacols'[pipes[1].hacol].filtered_data =
                 Filter(C26_Hacol.filtered_data, pipes[1].fetch.m)
          /\ hacols'[pipes[1].hacol].values =
                 Len(Filter(C26_Hacol.filtered_data, pipes[1].fetch.m))]_vars

\* C26, as the code has it: the second where() evaluates c2 on the filtered
\* view, and filter() applies its mask to the whole column, which is longer:
\* it fails and the column keeps the state the first filter() left
C26_SecondFilterFails ==
    [][C26_Case => last'.exc = "ArrowInvalid" /\ hacols' = hacols]_vars

C26_Witness ==
    /\ last.op = "col.filter"
    /\ last.exc = "ArrowInvalid"
    /\ \E d \in Attrs :
          /\ hacols[d].filtered
          /\ hacols[d].values < hacols[d].length
          /\ hacols[d].filtered_data # hacols[d].indices

\* ------------------------------------------------------------------------
\* C27: after a row-set filter() followed by update_hacols_filtered_state(),
\* for every column the filtered view is the column's Index array restricted
\* to the rows whose mask entry is true and values_included equals
\* rows_included; calling update_hacols_filtered_state() again without
\* changing the mask changes no column state
\* ------------------------------------------------------------------------
\* the r-th row the mask keeps
C27_Row(i) == CHOOSE r \in RowsKept : Cardinality({q \in RowsKept : q <= r}) = i

C27_Restricted(d) == [i \in 1..Cardinality(RowsKept) |-> hacols[d].indices[C27_Row(i)]]

C27_PropagationToColumns ==
    [][(/\ last.op \in {"filter", "update_hacols"}
        /\ last.exc = "none"
        /\ UpdateHacolsFilteredState)
       => /\ \A d \in Attrs :
                /\ hacols'[d].filtered_data = C27_Restricted(d)
                /\ hacols'[d].values = aset.hbonds
          /\ last.op = "update_hacols" => hacols' = hacols]_vars

\* C27 witness: the filter dropped rows and has been passed to the columns
C27_Witness ==
    /\ Returned("update_hacols")
    /\ aset.filtered
    /\ aset.hbonds < aset.num_rows
    /\ aset.hbonds > 0
    /\ \A d \in Attrs :
          /\ hacols[d].filtered
          /\ hacols[d].values = aset.hbonds
          /\ hacols[d].filtered_data = C27_Restricted(d)

\* ------------------------------------------------------------------------
\* C28: for the same sequence of conditions applied from a fully reset row
\* set, the Associative pipelines select.where(c).filter() and the Normal
\* pipelines q.where(c).filter() give the same row mask and the same count()
\* after every step; the modes differ in the StateDictionary updates only.
\* Stated on chains of either mode: no step fails, the mask and the counts
\* are those the conditions applied so far determine, whatever the mode of
\* the chain that applied each of them, and a column differs from its reset
\* state in its StateDictionary only
\* ------------------------------------------------------------------------
C28_ModesAgree ==
    /\ last.exc = "none"
    /\ aset.mask = ExpectedMask(applied)
    /\ Returned("filter") => aset.hbonds = Cardinality(RowsSatisfying(applied))
    /\ Returned("count") => pipes[1].fetch = FetchInt(Cardinality(RowsSatisfying(applied)))
    /\ \A d \in Attrs : [hacols[d] EXCEPT !.sdict = HacolReset(hacols[d]).sdict]
                            = HacolReset(hacols[d])

\* C28 witness: the count of the second of two chains, an Associative one
\* one; the two conditions are on different columns and together keep fewer
\* rows than one of them alone
C28_Witness ==
    /\ Returned("count")
    /\ ChainIs(1, <<"select", "where", "filter", "count">>)
    /\ Len(applied) = 2
    /\ pipes[1].fetch = FetchInt(1)
    /\ Meaning(applied[1]).attr # Meaning(applied[2]).attr
    /\ \E i \in 1..2 : Cardinality(RowsSatisfying(<<applied[i]>>)) > 1
    /\ \E d \in Attrs : \E p \in Positions(hacols[d]) :
          hacols[d].sdict.cnt[p] < hacols[d].sdict.freq[p]

\* ------------------------------------------------------------------------
\* C29: no pipeline or reset operation (where, And, filter in either mode,
\* select, update_hacols_filtered_state, full or partial reset) changes a
\* column's Dictionary, Index array, unique/missing/length counters or the
\* freq field of its StateDictionary; hence sum(freq) = length - missing in
\* every reachable state
\* ------------------------------------------------------------------------
C29_Constructed(h) ==
    <<h.dictionary, h.indices, h.unique, h.missing, h.length, h.sdict.freq,
      h.sdict.ha1, h.sdict.val>>

C29_SumFreq(h) ==
    LET S[p \in -1..(h.unique - 1)] == IF p = -1 THEN 0 ELSE S[p - 1] + h.sdict.freq[p]
    IN S[h.unique - 1]

C29_ColumnDataImmutable ==
    [][\A d \in Attrs :
          /\ C29_Constructed(hacols'[d]) = C29_Constructed(hacols[d])
          /\ C29_SumFreq(hacols[d]) = hacols[d].length - hacols[d].missing
          /\ C29_SumFreq(hacols'[d]) = hacols'[d].length - hacols'[d].missing]_vars

\* C29 witness: an Associative filter() has lowered the cnt of a value of a
\* column with missing values, and a partial reset has restored it from freq
C29_Witness ==
    /\ Returned("reset_hacols")
    /\ last.before.hbonds < aset.num_rows
    /\ last.before.inc
    /\ \E d \in Attrs :
          /\ hacols[d].missing > 0
          /\ hacols[d].unique > 1
          /\ hacols[d].sdict.cnt = hacols[d].sdict.freq

\* ------------------------------------------------------------------------
\* C30: between two full resets the row mask only shrinks: no where, And,
\* filter, select, update_hacols_filtered_state or reset(hacols_only=True)
\* turns a mask entry that is not true back to true, so the counts of
\* successive filter() calls do not increase until the next full reset()
\* ------------------------------------------------------------------------
C30_MaskOnlyShrinks ==
    [][last'.op # "reset" =>
          /\ Len(aset'.mask) = Len(aset.mask)
          /\ \A r \in 1..Len(aset.mask) : aset'.mask[r] = "T" => aset.mask[r] = "T"
          /\ aset'.hbonds <= aset.hbonds]_vars

\* C30 witness: a row dropped by the first condition satisfies the second
\* one, evaluated after it, and stays out of the mask and of the count
C30_Witness ==
    /\ Returned("filter")
    /\ clean
    /\ Len(applied) = 2
    /\ \E r \in 1..aset.num_rows :
          /\ ~Satisfies(r, applied[1])
          /\ Satisfies(r, applied[2])
          /\ aset.mask[r] # "T"
    /\ aset.hbonds = Popcount(aset.mask)
    /\ aset.hbonds < Cardinality(RowsSatisfying(<<applied[2]>>))

====
